---- MODULE Spec2Model ----
(***************************************************************************)
(* Model of the Gmail forwarding service: the credential store             *)
(* (user_email_tokens), the dedup ledger (imported_emails), and the        *)
(* POST /gmail-forward handler with its per-message jobs, the semaphore    *)
(* that bounds them, and the SMTP relay with its retry loop.               *)
(*                                                                         *)
(* Strings are sequences of one-character strings, so that splitting,      *)
(* trimming and iterating a string are computed as Python computes them.   *)
(***************************************************************************)
EXTENDS Integers, Sequences, FiniteSets, TLC

VARIABLES
    tokens,     \* rows of user_email_tokens (the Credential Store)
    ledger,     \* rows of imported_emails: <<user_id, message_id>>
    calls,      \* one record per forward request (its locals and its jobs)
    accepted,   \* Relay Transport: deliveries it accepted, per <<to, message_id>>
    purged,     \* users whose ledger records a confirmed purge has deleted
    smtp_config, \* TRUE iff RECEIPTDROP_INBOX, AWS_SMTP_USER/PASS, SMTP_HOST are all set
    now,        \* the clock, in token lifetimes
    linked,     \* <<user_id, address>> pairs the OAuth callback has stored or updated
    endpoint,   \* the token endpoint: refresh requests it received and granted
    writes      \* write-backs of a refreshed access token committed to the store

vars == <<tokens, ledger, calls, accepted, purged, smtp_config, now, linked, endpoint, writes>>

(***************************************************************************)
(* Bounds                                                                  *)
(***************************************************************************)
NCalls == 2          \* forward requests in one behaviour
MaxJobs == 2         \* characters of message_ids over all requests of a behaviour
MaxLimit == 2        \* largest valid concurrent_limit a request carries
MaxTime == 1         \* token lifetimes the clock runs through
MaxRefresh == 1      \* refreshes of a stored credential in one behaviour

(***************************************************************************)
(* Program constants                                                       *)
(***************************************************************************)
MAX_RETRY_ATTEMPTS == 3
LimitMin == 1
LimitMax == 10

None == "None"

Users == {"u1", "u2"}
Chars == {"a", ",", " "}
Whitespace == {" "}
Accounts == {"A@g", "b@g"}
RECEIPTDROP_INBOX == "inbox"

CallIds == 1..NCalls

(***************************************************************************)
(* Strings                                                                 *)
(***************************************************************************)
RECURSIVE StringsUpTo(_)
StringsUpTo(n) ==
    IF n = 0 THEN {<<>>}
    ELSE LET S == StringsUpTo(n - 1)
         IN  S \cup {Append(s, ch) : s \in {t \in S : Len(t) = n - 1}, ch \in Chars}

\* Python: iterating a str yields its characters, each a str of length 1.
PyIter(s) == [i \in DOMAIN s |-> <<s[i]>>]

\* Python: str.split(',') -- the pieces between the commas, empty ones kept.
RECURSIVE split(_, _)
split(s, sep) ==
    IF \A i \in DOMAIN s : s[i] # sep
    THEN <<s>>
    ELSE LET k == CHOOSE i \in DOMAIN s :
                     s[i] = sep /\ \A j \in 1..(i - 1) : s[j] # sep
         IN  <<SubSeq(s, 1, k - 1)>> \o split(SubSeq(s, k + 1, Len(s)), sep)

\* Python: str.strip() -- leading and trailing whitespace removed.
RECURSIVE strip(_)
strip(s) ==
    IF s = <<>> THEN s
    ELSE IF Head(s) \in Whitespace THEN strip(Tail(s))
    ELSE IF s[Len(s)] \in Whitespace THEN strip(SubSeq(s, 1, Len(s) - 1))
    ELSE s

RECURSIVE SelectNonEmpty(_)
SelectNonEmpty(q) ==
    IF q = <<>> THEN <<>>
    ELSE IF Head(q) = <<>> THEN SelectNonEmpty(Tail(q))
    ELSE <<Head(q)>> \o SelectNonEmpty(Tail(q))

\* message_id_list = [mid.strip() for mid in message_ids.split(',') if mid.strip()]
message_id_list(message_ids) ==
    LET parts == split(message_ids, ",")
    IN  SelectNonEmpty([i \in DOMAIN parts |-> strip(parts[i])])

Range(q) == {q[i] : i \in DOMAIN q}

(***************************************************************************)
(* Credential Store and credential acquisition (GmailClient)               *)
(***************************************************************************)
\* core.encryption: an opaque pair, decrypt_value(encrypt_value(x)) = x.
encrypt_value(x) == <<"enc", x>>
decrypt_value(c) == IF c = None THEN None ELSE c[2]

\* str.lower() on the account addresses of the model.
lower(e) == CASE e = "A@g" -> "a@g" [] OTHER -> e

\* A hash of the address as given, letter case included.
generate_email_hash_exact(email) == <<"sha256", email>>

\* sha256 is injective on the model's addresses: the digest of x is <<"sha256", x>>.
generate_email_hash(email) == <<"sha256", lower(email)>>

\* The provider's access tokens: a token is known by the time it expires at.
TokenLifetime == 1
AccessToken(issued_at) == <<"tok", issued_at + TokenLifetime>>
expires_at(token) == token[2]

\* The row gmail_callback upserts for (user_id, email) with a fresh token pair
\* (token_data, lines 96-107).
TokenRow(user_id, email, access, refresh, expiry) ==
    [user_id |-> user_id, email_provider |-> "gmail",
     email |-> encrypt_value(email), email_hash |-> generate_email_hash(email),
     access_token |-> encrypt_value(access), refresh_token |-> encrypt_value(refresh),
     token_uri |-> encrypt_value("token_uri"), client_id |-> "client_id",
     client_secret |-> encrypt_value("client_secret"),
     expiry |-> expiry]

\* google.oauth2 Credentials as _async_initialize builds it: no expiry is passed.
Credentials(token, refresh_token) ==
    [token |-> token, refresh_token |-> refresh_token, expiry |-> None]

\* Credentials.expired and Credentials.valid at time t: without an expiry the
\* credentials never count as expired.
expired(creds, t) == creds.expiry # None /\ creds.expiry <= t
valid(creds, t) == creds.token # None /\ ~expired(creds, t)

\* A lookup that takes the first row whatever the number of linked accounts.
_get_token_data_first(store, user_id, email) ==
    LET rows == {t \in store :
                    /\ t.user_id = user_id
                    /\ t.email_provider = "gmail"
                    /\ (email # "" => t.email_hash = generate_email_hash(email))}
    IN  IF rows = {} THEN [kind |-> "none"]
        ELSE [kind |-> "row", row |-> CHOOSE t \in rows : TRUE]

\* GmailClient._get_token_data: "none", "raise" (several accounts, none named) or the row.
_get_token_data(store, user_id, email) ==
    LET rows == {t \in store :
                    /\ t.user_id = user_id
                    /\ t.email_provider = "gmail"
                    /\ (email # "" => t.email_hash = generate_email_hash(email))}
    IN  IF rows = {} THEN [kind |-> "none"]
        ELSE IF Cardinality(rows) > 1 /\ email = "" THEN [kind |-> "raise"]
        ELSE [kind |-> "row", row |-> CHOOSE t \in rows : TRUE]

\* A write-back that stores the refresh's whole answer over the credential.
_update_whole_credential(store, user_id, new_token, email_hash) ==
    LET hit == {t \in store : /\ t.user_id = user_id
                              /\ t.email_provider = "gmail"
                              /\ t.email_hash = email_hash}
    IN  IF hit = {} THEN [ok |-> FALSE, store |-> store]
        ELSE [ok |-> TRUE,
              store |-> (store \ hit) \cup
                        {[t EXCEPT !.access_token = encrypt_value(new_token),
                                   !.refresh_token = encrypt_value(None),
                                   !.expiry = expires_at(new_token)] : t \in hit}]

\* A write-back over columns that may be NULL: without a conflicting row the INSERT
\* goes through and leaves a record with the key and the access token only.
_update_inserts_partial(store, user_id, new_token, email_hash) ==
    LET hit == {t \in store : /\ t.user_id = user_id
                              /\ t.email_provider = "gmail"
                              /\ t.email_hash = email_hash}
    IN  IF hit = {}
        THEN [ok |-> TRUE,
              store |-> store \cup
                        {[user_id |-> user_id, email_provider |-> "gmail",
                          email |-> encrypt_value(None), email_hash |-> email_hash,
                          access_token |-> encrypt_value(new_token),
                          refresh_token |-> encrypt_value(None),
                          token_uri |-> encrypt_value(None), client_id |-> None,
                          client_secret |-> encrypt_value(None),
                          expiry |-> expires_at(new_token)]}]
        ELSE [ok |-> TRUE,
              store |-> (store \ hit) \cup
                        {[t EXCEPT !.access_token = encrypt_value(new_token)] : t \in hit}]

\* GmailClient._update_access_token: ON CONFLICT (user_id, email_provider, email_hash)
\* DO UPDATE SET access_token; without a conflicting row the INSERT lacks the
\* NOT NULL columns email and refresh_token and the statement fails.
_update_access_token(store, user_id, new_token, email_hash) ==
    LET hit == {t \in store : /\ t.user_id = user_id
                              /\ t.email_provider = "gmail"
                              /\ t.email_hash = email_hash}
    IN  IF hit = {} THEN [ok |-> FALSE, store |-> store]
        ELSE [ok |-> TRUE,
              store |-> (store \ hit) \cup
                        {[t EXCEPT !.access_token = encrypt_value(new_token)] : t \in hit}]

\* The outcome of an acquisition: ok / error, the store it leaves, the session's
\* access token and address, and what it asked of the token endpoint (asked), was
\* granted by it (granted) and wrote back to the store (writes), each 0 or 1.
Outcome(ok, error, store, token, user_email, asked, granted, wrote) ==
    [ok |-> ok, error |-> error, store |-> store, token |-> token,
     user_email |-> user_email, asked |-> asked, granted |-> granted, writes |-> wrote]

\* A refresh that writes the store back whatever the token endpoint answered.
refresh_write_always(store, user_id, row, refresh_ok, new_token) ==
    LET upd == _update_access_token(store, user_id, new_token, row.email_hash)
    IN  Outcome(refresh_ok, IF refresh_ok THEN None ELSE "refresh_failed", upd.store,
                new_token, decrypt_value(row.email), 1, IF refresh_ok THEN 1 ELSE 0, 1)

\* Lines 80-84, the branch taken when the credentials are not valid:
\* creds.refresh(Request()), then _update_access_token(creds.token, email_hash).
\* A refresh the token endpoint rejects raises and nothing is written.
refresh(store, user_id, row, refresh_ok, new_token) ==
    IF ~refresh_ok
    THEN Outcome(FALSE, "refresh_failed", store, None, None, 1, 0, 0)
    ELSE LET upd == _update_access_token(store, user_id, new_token, row.email_hash)
         IN  IF upd.ok
             THEN Outcome(TRUE, None, upd.store, new_token, decrypt_value(row.email), 1, 1, 1)
             ELSE Outcome(FALSE, "update_failed", store, None, None, 1, 1, 0)

\* _async_initialize without the "no token" exception: a missing credential
\* is taken for a usable one.
_async_initialize_no_raise(store, user_id, email, t, refresh_ok, new_token) ==
    Outcome(TRUE, None, store, None, None, 0, 0, 0)

\* GmailClient._async_initialize at time t, as awaited by GmailClient.create.
\* refresh_ok and new_token are the token endpoint's answer, used only when
\* the credentials are not valid.
_async_initialize(store, user_id, email, t, refresh_ok, new_token) ==
    LET token_data == _get_token_data(store, user_id, email)
    IN  IF token_data.kind = "none"
        THEN Outcome(FALSE, "no_token", store, None, None, 0, 0, 0)
        ELSE IF token_data.kind = "raise"
        THEN Outcome(FALSE, "several_accounts", store, None, None, 0, 0, 0)
        ELSE LET row == token_data.row
                 creds == Credentials(decrypt_value(row.access_token),
                                      decrypt_value(row.refresh_token))
             IN  IF valid(creds, t)
                 THEN Outcome(TRUE, None, store, creds.token, decrypt_value(row.email),
                              0, 0, 0)
                 ELSE refresh(store, user_id, row, refresh_ok, new_token)

(***************************************************************************)
(* Dedup Ledger                                                            *)
(***************************************************************************)
\* A dedup lookup that finds nothing.
check_never_imported(rows, user_id, message_ids) ==
    [mid \in Range(message_ids) |-> FALSE]

\* A dedup lookup without the user_id condition: a record of any user counts.
check_any_user(rows, user_id, message_ids) ==
    LET imported_ids == {r[2] : r \in {x \in rows : x[2] \in Range(message_ids)}}
    IN  [mid \in Range(message_ids) |-> mid \in imported_ids]

\* check_already_imported: one SELECT ... WHERE user_id = :u AND message_id IN (...),
\* then {mid: (mid in imported_ids) for mid in message_ids}.
\* message_ids is whatever iterable the caller passes, as the sequence of its elements.
check_already_imported(rows, user_id, message_ids) ==
    LET imported_ids == {r[2] : r \in {x \in rows : x[1] = user_id /\ x[2] \in Range(message_ids)}}
    IN  [mid \in Range(message_ids) |-> mid \in imported_ids]

\* A batch insert that keeps only the last row of its values.
mark_last_only(rows, user_id, message_ids) ==
    IF message_ids = <<>> THEN rows
    ELSE rows \cup {<<user_id, message_ids[Len(message_ids)]>>}

\* A batch insert whose transaction is never committed.
mark_without_commit(rows, user_id, message_ids) == rows

\* A plain INSERT under the unique index idx_user_message: a key that is already
\* present, or given twice, fails the statement and no row is inserted.
insert_values(rows, values) ==
    IF \/ \E i \in DOMAIN values : values[i] \in rows
       \/ \E i \in DOMAIN values, j \in DOMAIN values : i # j /\ values[i] = values[j]
    THEN rows
    ELSE rows \cup Range(values)

\* INSERT ... VALUES ... ON CONFLICT (user_id, message_id) DO NOTHING: the rows are
\* inserted in turn, a row whose key is present is skipped.
RECURSIVE insert_on_conflict_do_nothing(_, _)
insert_on_conflict_do_nothing(rows, values) ==
    IF values = <<>> THEN rows
    ELSE insert_on_conflict_do_nothing(
             IF Head(values) \in rows THEN rows ELSE rows \cup {Head(values)},
             Tail(values))

\* mark_as_imported_batch: nothing for an empty list, else one batch INSERT of
\* (user_id, message_id) rows, committed.
mark_as_imported_batch(rows, user_id, message_ids) ==
    IF message_ids = <<>> THEN rows
    ELSE insert_on_conflict_do_nothing(
             rows, [i \in DOMAIN message_ids |-> <<user_id, message_ids[i]>>])

\* A plain INSERT raises IntegrityError when a key is already present or is given
\* twice.
insert_values_raises(rows, values) ==
    \/ \E i \in DOMAIN values : values[i] \in rows
    \/ \E i \in DOMAIN values, j \in DOMAIN values : i # j /\ values[i] = values[j]

\* Lines 158-160: with ON CONFLICT (user_id, message_id) DO NOTHING a row whose key
\* is present, committed by another transaction in the meantime included, is
\* skipped; the statement raises no unique violation.
on_conflict_raises(rows, values) == FALSE

\* Whether await mark_as_imported_batch(user_id, message_ids) raises (lines 143-162
\* have no except clause: an error of the INSERT leaves the function).
mark_raises(rows, user_id, message_ids) ==
    /\ message_ids # <<>>
    /\ on_conflict_raises(rows, [i \in DOMAIN message_ids |-> <<user_id, message_ids[i]>>])

\* imported_status.get(mid, False)
dict_get(d, k, default) == IF k \in DOMAIN d THEN d[k] ELSE default

(***************************************************************************)
(* The forward request: POST /gmail-forward                                *)
(***************************************************************************)
\* One inbox for everybody: the address does not depend on the user.
shared_inbox(user_id) == <<"u1", "@", RECEIPTDROP_INBOX>>

\* Line 282: virtual_inbox = f"{user_id}@{RECEIPTDROP_INBOX}".
virtual_inbox(user_id) == <<user_id, "@", RECEIPTDROP_INBOX>>

Terminal == {"forwarded", "skipped", "failed"}
InFlight == {"sending", "sleeping"}

\* A job is one task of asyncio.gather: process_with_semaphore(mid).
\*   st      where the task is: pending (waiting for the semaphore), sending
\*           (awaiting the SMTP executor), sleeping (awaiting the backoff sleep),
\*           or returned with status forwarded / skipped / failed
\*   att     delivery attempts started so far (retry_count + 1 while sending)
\*   fetched messages().get(...).execute() was called for it
\*   reason  the "reason" of a skipped or failed result
PendingJob == [st |-> "pending", att |-> 0, fetched |-> FALSE, reason |-> None]

IdleCall ==
    [pc |-> "idle", user_id |-> None, message_ids |-> <<>>, concurrent_limit |-> 0,
     user_email |-> None, token |-> None, token_data |-> None, error |-> None,
     service |-> None, virtual_inbox |-> None, imported_status |-> None,
     jobs |-> <<>>, results |-> <<>>, forwarded_ids |-> <<>>, summary |-> None,
     after |-> {}]

RECURSIVE SumLen(_)
SumLen(n) == IF n = 0 THEN 0 ELSE Len(calls[n].message_ids) + SumLen(n - 1)

Returned == {c \in CallIds : calls[c].pc = "returned"}

\* The token endpoint and the write-back count after an acquisition.
endpoint_after(out) ==
    [asked |-> endpoint.asked + out.asked, granted |-> endpoint.granted + out.granted]

\* A query parameter declared without bounds: every integer passes.
limit_any(concurrent_limit) == TRUE

\* Line 252: concurrent_limit: int = Query(default=5, ge=1, le=10).  The framework
\* validates the parameter before it calls the handler.
limit_valid(concurrent_limit) ==
    concurrent_limit >= LimitMin /\ concurrent_limit <= LimitMax

\* Lines 247-279 and 281-282: FastAPI validates concurrent_limit (ge=1, le=10), the
\* handler checks the SMTP configuration, then awaits GmailClient.create.
forward_emails(c, user_id, email, message_ids, concurrent_limit, refresh_ok) ==
    /\ calls[c].pc = "idle"
    /\ \A d \in 1..(c - 1) : calls[d].pc # "idle"
    /\ Len(message_ids) + SumLen(NCalls) <= MaxJobs
    /\ LET init == _async_initialize(tokens, user_id, email, now, refresh_ok,
                                     AccessToken(now))
       IN  IF ~limit_valid(concurrent_limit)
           THEN /\ calls' = [calls EXCEPT ![c] =
                               [@ EXCEPT !.pc = "rejected",
                                         !.concurrent_limit = concurrent_limit,
                                         !.after = Returned]]
                /\ UNCHANGED <<tokens, endpoint, writes>>
           ELSE IF ~smtp_config
           THEN /\ calls' = [calls EXCEPT ![c] =
                               [@ EXCEPT !.pc = "config_error", !.after = Returned]]
                /\ UNCHANGED <<tokens, endpoint, writes>>
           ELSE IF ~init.ok
           THEN /\ calls' = [calls EXCEPT ![c] =
                               [@ EXCEPT !.pc = "init_failed",
                                         !.user_id = user_id,
                                         !.error = init.error,
                                         !.after = Returned]]
                /\ tokens' = init.store
                /\ endpoint' = endpoint_after(init)
                /\ writes' = writes + init.writes
           ELSE /\ calls' = [calls EXCEPT ![c] =
                               [@ EXCEPT !.pc = "acquired",
                                         !.user_id = user_id,
                                         !.message_ids = message_ids,
                                         !.concurrent_limit = concurrent_limit,
                                         !.user_email = init.user_email,
                                         !.token = init.token,
                                         !.service = "gmail v1",
                                         !.virtual_inbox = virtual_inbox(user_id),
                                         !.after = Returned]]
                /\ tokens' = init.store
                /\ endpoint' = endpoint_after(init)
                /\ writes' = writes + init.writes
    /\ UNCHANGED <<ledger, accepted, purged, smtp_config, now, linked>>

\* Line 285: imported_status = await check_already_imported(user_id, message_ids),
\* then lines 289-302 create one task per element of message_ids.  message_ids is
\* the request's string, so its elements are its characters.
check_ledger(c) ==
    /\ calls[c].pc = "acquired"
    /\ LET mids == PyIter(calls[c].message_ids)
       IN  calls' = [calls EXCEPT ![c] =
                       [@ EXCEPT !.pc = "running",
                                 !.imported_status =
                                     check_already_imported(ledger, calls[c].user_id, mids),
                                 !.jobs = [i \in DOMAIN mids |-> PendingJob]]]
    /\ UNCHANGED <<tokens, ledger, accepted, purged, smtp_config, now, linked, endpoint, writes>>

\* Line 136: ImportedEmail.message_id.in_(message_ids) is handed a str, not a list;
\* the SQL toolkit may refuse it, and the exception leaves the handler uncaught.
check_ledger_raises(c) ==
    /\ calls[c].pc = "acquired"
    /\ calls' = [calls EXCEPT ![c] = [@ EXCEPT !.pc = "check_failed"]]
    /\ UNCHANGED <<tokens, ledger, accepted, purged, smtp_config, now, linked, endpoint, writes>>

\* The message id task j of call c works on: the j-th element of message_ids.
JobMid(c, j) == PyIter(calls[c].message_ids)[j]

InFlightCount(c) == Cardinality({j \in DOMAIN calls[c].jobs : calls[c].jobs[j].st \in InFlight})

\* No semaphore: every task enters at once.
semaphore_unbounded(c) == TRUE

\* A semaphore that is acquired and never released: a task that has returned
\* keeps its slot.
semaphore_never_released(c) ==
    Cardinality({j \in DOMAIN calls[c].jobs : calls[c].jobs[j].st # "pending"})
        < calls[c].concurrent_limit

\* asyncio.Semaphore(concurrent_limit): a task enters when fewer than
\* concurrent_limit tasks hold it.
semaphore_free(c) == InFlightCount(c) < calls[c].concurrent_limit

\* The event loop starts the tasks in the order gather created them, and the
\* semaphore wakes its waiters first come, first served.
next_in_line(c, j) == \A i \in 1..(j - 1) : calls[c].jobs[i].st # "pending"

FetchOutcomes == {"error", "empty", "bad_base64", "raw"}

\* process_single_email without its except clauses: a fetch error leaves the task.
process_single_email_uncaught(is_imported, fetch) ==
    IF is_imported
    THEN [st |-> "skipped", att |-> 0, fetched |-> FALSE, reason |-> "already_imported"]
    ELSE IF fetch = "raw"
    THEN [st |-> "sending", att |-> 1, fetched |-> TRUE, reason |-> None]
    ELSE [st |-> "raised", att |-> 0, fetched |-> TRUE, reason |-> None]

\* process_single_email with the fetch moved before the dedup test: an imported
\* message is fetched and then skipped.
process_single_email_fetch_first(is_imported, fetch) ==
    IF is_imported
    THEN [st |-> "skipped", att |-> 0, fetched |-> TRUE, reason |-> "already_imported"]
    ELSE IF fetch = "raw"
    THEN [st |-> "sending", att |-> 1, fetched |-> TRUE, reason |-> None]
    ELSE [st |-> "failed", att |-> 0, fetched |-> TRUE, reason |-> "unexpected_error"]

\* process_single_email with a fetch that is tried again: after a failed fetch the
\* task waits for its turn once more.
process_single_email_refetch(is_imported, fetch) ==
    IF is_imported
    THEN [st |-> "skipped", att |-> 0, fetched |-> FALSE, reason |-> "already_imported"]
    ELSE IF fetch = "raw"
    THEN [st |-> "sending", att |-> 1, fetched |-> TRUE, reason |-> None]
    ELSE [st |-> "pending", att |-> 0, fetched |-> TRUE, reason |-> None]

\* process_single_email up to its first await (lines 174-215): the dedup test, the
\* blocking messages().get(format="raw"), the base64url decode.
process_single_email(is_imported, fetch) ==
    IF is_imported
    THEN [st |-> "skipped", att |-> 0, fetched |-> FALSE, reason |-> "already_imported"]
    ELSE IF fetch = "error"
    THEN [st |-> "failed", att |-> 0, fetched |-> TRUE, reason |-> "unexpected_error"]
    ELSE IF fetch = "empty"
    THEN [st |-> "failed", att |-> 0, fetched |-> TRUE, reason |-> "no_raw_content"]
    ELSE IF fetch = "bad_base64"
    THEN [st |-> "failed", att |-> 0, fetched |-> TRUE, reason |-> "unexpected_error"]
    ELSE [st |-> "sending", att |-> 1, fetched |-> TRUE, reason |-> None]

\* Lines 294-298: async with semaphore: await process_single_email(...).
process_with_semaphore(c, j, fetch) ==
    /\ calls[c].pc = "running"
    /\ j \in DOMAIN calls[c].jobs
    /\ calls[c].jobs[j].st = "pending"
    /\ semaphore_free(c)
    /\ next_in_line(c, j)
    /\ calls' = [calls EXCEPT ![c].jobs[j] =
                    process_single_email(
                        dict_get(calls[c].imported_status, JobMid(c, j), FALSE), fetch)]
    /\ UNCHANGED <<tokens, ledger, accepted, purged, smtp_config, now, linked, endpoint, writes>>

\* Lines 110-114: _send_sync returned; the transport accepted the message.
smtp_accepts(c, j) ==
    /\ calls[c].pc = "running"
    /\ j \in DOMAIN calls[c].jobs
    /\ calls[c].jobs[j].st = "sending"
    /\ calls' = [calls EXCEPT ![c].jobs[j].st = "forwarded"]
    /\ accepted' = [accepted EXCEPT ![<<calls[c].virtual_inbox, JobMid(c, j)>>] = @ + 1]
    /\ UNCHANGED <<tokens, ledger, purged, smtp_config, now, linked, endpoint, writes>>

SmtpErrors == {"SMTP authentication failed", "SMTP error", "Unexpected error"}

\* A relay without retries: the first error ends the job.
after_send_error_no_retry(job, retry_count, err) ==
    [job EXCEPT !.st = "failed", !.reason = err]

\* Lines 115-122: the job after _send_sync raised EmailForwardError(err) on the
\* attempt with the given retry_count.
after_send_error(job, retry_count, err) ==
    IF retry_count < MAX_RETRY_ATTEMPTS
    THEN [job EXCEPT !.st = "sleeping"]
    ELSE [job EXCEPT !.st = "failed", !.reason = err]

\* Lines 98-108 and 115-122: an attempt fails (authentication, SMTP or other error).
smtp_fails(c, j, err) ==
    /\ calls[c].pc = "running"
    /\ j \in DOMAIN calls[c].jobs
    /\ calls[c].jobs[j].st = "sending"
    /\ calls' = [calls EXCEPT ![c].jobs[j] =
                    after_send_error(@, calls[c].jobs[j].att - 1, err)]
    /\ UNCHANGED <<tokens, ledger, accepted, purged, smtp_config, now, linked, endpoint, writes>>

\* Lines 118-120: the backoff sleep is over; send again with retry_count + 1.
retry_send(c, j) ==
    /\ calls[c].pc = "running"
    /\ j \in DOMAIN calls[c].jobs
    /\ calls[c].jobs[j].st = "sleeping"
    /\ calls' = [calls EXCEPT ![c].jobs[j] = [@ EXCEPT !.st = "sending", !.att = @ + 1]]
    /\ UNCHANGED <<tokens, ledger, accepted, purged, smtp_config, now, linked, endpoint, writes>>

\* The dict process_single_email returns for a finished job (lines 178-182, 195-199,
\* 224-229, 233-237, 240-244); size_kb and duration_seconds are left out.
result_of(mid, job) == [message_id |-> mid, status |-> job.st, reason |-> job.reason]

\* The message ids of all results, whatever their status.
SelectAnyStatus(results, status) ==
    [i \in DOMAIN results |-> results[i].message_id]

RECURSIVE SelectStatus(_, _)
SelectStatus(results, status) ==
    IF results = <<>> THEN <<>>
    ELSE IF Head(results).status = status
    THEN <<Head(results).message_id>> \o SelectStatus(Tail(results), status)
    ELSE SelectStatus(Tail(results), status)

\* Lines 312-319: the summary; total is len(message_ids).
summary_of(message_ids, results) ==
    [total |-> Len(message_ids),
     forwarded |-> Len(SelectStatus(results, "forwarded")),
     skipped |-> Len(SelectStatus(results, "skipped")),
     failed |-> Len(SelectStatus(results, "failed"))]

\* Lines 302-327: asyncio.gather returns once every task has returned, in task
\* order (or raises as soon as a task raised, and the handler dies with it); the
\* forwarded ids are marked in one batch (an error of the INSERT leaves the handler
\* too, its transaction rolled back); the response is returned.
gather_and_return(c) ==
    /\ calls[c].pc = "running"
    /\ \/ \E j \in DOMAIN calls[c].jobs : calls[c].jobs[j].st = "raised"
       \/ \A j \in DOMAIN calls[c].jobs : calls[c].jobs[j].st \in Terminal
    /\ LET results == [j \in DOMAIN calls[c].jobs |-> result_of(JobMid(c, j), calls[c].jobs[j])]
           forwarded_ids == SelectStatus(results, "forwarded")
       IN  IF \/ \E j \in DOMAIN calls[c].jobs : calls[c].jobs[j].st = "raised"
              \/ mark_raises(ledger, calls[c].user_id, forwarded_ids)
           THEN /\ ledger' = ledger
                /\ calls' = [calls EXCEPT ![c] = [@ EXCEPT !.pc = "aborted"]]
           ELSE /\ ledger' = IF forwarded_ids # <<>>
                             THEN mark_as_imported_batch(ledger, calls[c].user_id, forwarded_ids)
                             ELSE ledger
                /\ calls' = [calls EXCEPT ![c] =
                                [@ EXCEPT !.pc = "returned",
                                          !.results = results,
                                          !.forwarded_ids = forwarded_ids,
                                          !.summary = summary_of(calls[c].message_ids, results)]]
    /\ UNCHANGED <<tokens, accepted, purged, smtp_config, now, linked, endpoint, writes>>

\* A purge that does not look at confirm.
clear_without_confirm(user_id, confirm) ==
    /\ ledger' = {r \in ledger : r[1] # user_id}
    /\ purged' = IF confirm /\ (\E r \in ledger : r[1] = user_id)
                 THEN purged \cup {user_id}
                 ELSE purged
    /\ UNCHANGED <<tokens, calls, accepted, smtp_config, now, linked, endpoint, writes>>

\* A purge that deletes the records of every user.
clear_all_users(user_id, confirm) ==
    /\ ledger' = IF confirm THEN {} ELSE ledger
    /\ purged' = IF confirm /\ (\E r \in ledger : r[1] = user_id)
                 THEN purged \cup {user_id}
                 ELSE purged
    /\ UNCHANGED <<tokens, calls, accepted, smtp_config, now, linked, endpoint, writes>>

\* DELETE /gmail-forward/clear-imported (lines 378-414): without confirm=true the
\* request is refused; with it every record of the user is deleted.
clear_imported_records(user_id, confirm) ==
    /\ ledger' = IF confirm THEN {r \in ledger : r[1] # user_id} ELSE ledger
    /\ purged' = IF confirm /\ (\E r \in ledger : r[1] = user_id)
                 THEN purged \cup {user_id}
                 ELSE purged
    /\ UNCHANGED <<tokens, calls, accepted, smtp_config, now, linked, endpoint, writes>>

(***************************************************************************)
(* The Credential Store's operations: link, revoke, refresh                *)
(***************************************************************************)
\* An upsert that never meets a conflict: every callback inserts a row.
upsert_insert_only(store, row) == store \cup {row}

\* gmail_callback, lines 109-121: INSERT ... ON CONFLICT (user_id, email_provider,
\* email_hash) DO UPDATE SET access_token, refresh_token, token_uri, expiry.
upsert_token(store, row) ==
    LET hit == {t \in store : /\ t.user_id = row.user_id
                              /\ t.email_provider = row.email_provider
                              /\ t.email_hash = row.email_hash}
    IN  IF hit = {} THEN store \cup {row}
        ELSE (store \ hit) \cup
             {[t EXCEPT !.access_token = row.access_token,
                        !.refresh_token = row.refresh_token,
                        !.token_uri = row.token_uri,
                        !.expiry = row.expiry] : t \in hit}

\* GET /gmail-auth/callback (lines 58-135): the code is exchanged for a token pair,
\* the profile gives the account address, the credential is upserted.
gmail_callback(user_id, email) ==
    /\ tokens' = upsert_token(tokens,
                     TokenRow(user_id, email, AccessToken(now), "ref0", expires_at(AccessToken(now))))
    /\ linked' = linked \cup {<<user_id, email>>}
    /\ UNCHANGED <<ledger, calls, accepted, purged, smtp_config, now, endpoint, writes>>

\* A revoke that takes the first row when the user has several.
revoke_first_row(user_id) ==
    /\ LET rows == {t \in tokens : t.user_id = user_id /\ t.email_provider = "gmail"}
       IN  tokens' = IF rows = {} THEN tokens ELSE tokens \ {CHOOSE t \in rows : TRUE}
    /\ UNCHANGED <<ledger, calls, accepted, purged, smtp_config, now, linked, endpoint, writes>>

\* DELETE /gmail-auth/revoke (lines 188-219): scalar_one_or_none() gives no row
\* (404), the one row, which is deleted, or raises for several rows (500).
revoke_gmail_token(user_id) ==
    /\ LET rows == {t \in tokens : t.user_id = user_id /\ t.email_provider = "gmail"}
       IN  tokens' = IF Cardinality(rows) = 1 THEN tokens \ rows ELSE tokens
    /\ UNCHANGED <<ledger, calls, accepted, purged, smtp_config, now, linked, endpoint, writes>>

\* Time passes: one token lifetime.
tick ==
    /\ now < MaxTime
    /\ now' = now + 1
    /\ UNCHANGED <<tokens, ledger, calls, accepted, purged, smtp_config, linked, endpoint, writes>>

\* Lines 80-84 applied to a stored credential: what _async_initialize does with
\* credentials that are not valid.  The lookup and the write-back are one step.
refresh_credentials(user_id, email, refresh_ok) ==
    /\ endpoint.asked < MaxRefresh
    /\ LET token_data == _get_token_data(tokens, user_id, email)
       IN  /\ token_data.kind = "row"
           /\ LET out == refresh(tokens, user_id, token_data.row, refresh_ok, AccessToken(now))
              IN  /\ tokens' = out.store
                  /\ endpoint' = endpoint_after(out)
                  /\ writes' = writes + out.writes
    /\ UNCHANGED <<ledger, calls, accepted, purged, smtp_config, now, linked>>

\* An acquisition that refreshes, await by await, so that two of them interleave.
\* Line 61: token_data = await self._get_token_data().
lookup_token_data(c, user_id, email) ==
    /\ calls[c].pc = "idle"
    /\ LET token_data == _get_token_data(tokens, user_id, email)
       IN  /\ token_data.kind = "row"
           /\ calls' = [calls EXCEPT ![c] =
                           [@ EXCEPT !.pc = "token_data",
                                     !.user_id = user_id,
                                     !.token_data = token_data.row]]
    /\ UNCHANGED <<tokens, ledger, accepted, purged, smtp_config, now, linked, endpoint, writes>>

\* Line 82: creds.refresh(Request()), a blocking call; the token endpoint answers
\* with a new access token or rejects the refresh token, which raises.
creds_refresh(c, refresh_ok) ==
    /\ calls[c].pc = "token_data"
    /\ calls' = [calls EXCEPT ![c] =
                    IF refresh_ok
                    THEN [@ EXCEPT !.pc = "refreshed", !.token = AccessToken(now)]
                    ELSE [@ EXCEPT !.pc = "init_failed", !.error = "refresh_failed"]]
    /\ endpoint' = [asked |-> endpoint.asked + 1,
                    granted |-> endpoint.granted + (IF refresh_ok THEN 1 ELSE 0)]
    /\ UNCHANGED <<tokens, ledger, accepted, purged, smtp_config, now, linked, writes>>

\* A write-back of the token that was read from the store at the lookup.
write_back_looked_up(call) == decrypt_value(call.token_data.access_token)

\* Line 84: the token handed to the write-back is creds.token after the refresh.
write_back_token(call) == call.token

\* Line 84: await self._update_access_token(creds.token, token_data["email_hash"]),
\* then lines 86-87 finish the session.
write_back(c) ==
    /\ calls[c].pc = "refreshed"
    /\ LET upd == _update_access_token(tokens, calls[c].user_id, write_back_token(calls[c]),
                                       calls[c].token_data.email_hash)
       IN  IF upd.ok
           THEN /\ tokens' = upd.store
                /\ writes' = writes + 1
                /\ calls' = [calls EXCEPT ![c] =
                                [@ EXCEPT !.pc = "acquired",
                                          !.service = "gmail v1",
                                          !.user_email = decrypt_value(calls[c].token_data.email)]]
           ELSE /\ calls' = [calls EXCEPT ![c] =
                                [@ EXCEPT !.pc = "init_failed", !.error = "update_failed"]]
                /\ UNCHANGED <<tokens, writes>>
    /\ UNCHANGED <<ledger, accepted, purged, smtp_config, now, linked, endpoint>>

\* Line 84 when the database refuses the statement: the row the INSERT proposes has
\* no email and no refresh_token, both NOT NULL (models.py lines 55-58), and a
\* server that checks the proposed row before it looks for the conflict raises
\* whether or not the record exists.  Nothing is written.
write_back_refused(c) ==
    /\ calls[c].pc = "refreshed"
    /\ calls' = [calls EXCEPT ![c] =
                    [@ EXCEPT !.pc = "init_failed", !.error = "update_failed"]]
    /\ UNCHANGED <<tokens, ledger, accepted, purged, smtp_config, now, linked, endpoint, writes>>

\* GmailClient.__init__ (lines 25-38): the constructor stores its arguments and
\* leaves service and user_email unset; nothing is initialized.
GmailClient(user_id, email) ==
    [user_id |-> user_id, email |-> email, service |-> None, user_email |-> None,
     _initialized |-> FALSE]

\* A request of the search router with the client it constructed: the handler
\* evaluates gmail.service.users() (lines 108 and 194).  On an unset service that
\* is an AttributeError, which the handler's except turns into a 500.
use_service(c, gmail, done, failed) ==
    /\ calls[c].pc = "idle"
    /\ \A d \in 1..(c - 1) : calls[d].pc # "idle"
    /\ calls' = [calls EXCEPT ![c] =
                    IF gmail.service = None
                    THEN [@ EXCEPT !.pc = failed, !.user_id = gmail.user_id,
                                   !.service = gmail.service,
                                   !.error = "AttributeError", !.after = Returned]
                    ELSE [@ EXCEPT !.pc = done, !.user_id = gmail.user_id,
                                   !.service = gmail.service, !.after = Returned]]
    /\ UNCHANGED <<tokens, ledger, accepted, purged, smtp_config, now, linked, endpoint, writes>>

\* GET /gmail-search (lines 79-108): gmail = GmailClient(user_id, email), then
\* gmail.service.users().messages().list(...).
search_gmail(c, user_id, email) ==
    use_service(c, GmailClient(user_id, email), "searched", "search_failed")

\* GET /gmail-search/count (lines 182-198): the same construction and use.
count_gmail_messages(c, user_id, email) ==
    use_service(c, GmailClient(user_id, email), "counted", "count_failed")

(***************************************************************************)
(* Initial states and next-state relation                                  *)
(***************************************************************************)
\* Credential stores the OAuth callback can have produced: nobody linked, one
\* account linked, two accounts of one user linked.
LinkedChoices ==
    { {},
      {<<"u1", "A@g">>},
      {<<"u1", "A@g">>, <<"u1", "b@g">>} }

EmailInputs == {"", "a@g", "b@g"}
MessageIdsInputs == StringsUpTo(MaxJobs) \ {<<>>}
LimitInputs == {0, 11} \cup (1..MaxLimit)
Deliveries == {<<virtual_inbox(u), <<ch>>>> : u \in Users, ch \in Chars}

Init ==
    /\ linked \in LinkedChoices
    /\ tokens = {TokenRow(p[1], p[2], AccessToken(0), "ref0", expires_at(AccessToken(0))) :
                    p \in linked}
    /\ ledger = {}
    /\ calls = [c \in CallIds |-> IdleCall]
    /\ accepted = [d \in Deliveries |-> 0]
    /\ purged = {}
    /\ smtp_config \in BOOLEAN
    /\ now = 0
    /\ endpoint = [asked |-> 0, granted |-> 0]
    /\ writes = 0

Next ==
    \/ \E c \in CallIds :
          /\ calls[c].pc = "idle"
          /\ \E u \in Users, e \in EmailInputs, s \in MessageIdsInputs,
                lim \in LimitInputs, ok \in BOOLEAN :
                forward_emails(c, u, e, s, lim, ok)
    \/ \E c \in CallIds : check_ledger(c)
    \/ \E c \in CallIds : check_ledger_raises(c)
    \/ \E c \in CallIds, j \in 1..MaxJobs, f \in FetchOutcomes : process_with_semaphore(c, j, f)
    \/ \E c \in CallIds, j \in 1..MaxJobs : smtp_accepts(c, j)
    \/ \E c \in CallIds, j \in 1..MaxJobs, err \in SmtpErrors : smtp_fails(c, j, err)
    \/ \E c \in CallIds, j \in 1..MaxJobs : retry_send(c, j)
    \/ \E c \in CallIds : gather_and_return(c)
    \/ \E u \in Users, confirm \in BOOLEAN : clear_imported_records(u, confirm)

Spec == Init /\ [][Next]_vars

\* The forward pipeline under the assumption that every fetch and every delivery
\* attempt returns: the event loop runs every task that is ready (a task at the head
\* of the semaphore's queue with a free slot, a backoff sleep that is over, the
\* gather whose tasks are done), and the executor thread's send comes back with
\* success or an error.
Progress ==
    /\ \A c \in CallIds : WF_vars(gather_and_return(c))
    /\ \A c \in CallIds, j \in 1..MaxJobs :
          /\ WF_vars(\E f \in FetchOutcomes : process_with_semaphore(c, j, f))
          /\ WF_vars(smtp_accepts(c, j) \/ \E err \in SmtpErrors : smtp_fails(c, j, err))
          /\ WF_vars(retry_send(c, j))

\* One account linked and the SMTP configuration complete: the states from which a
\* forward call gets as far as creating its tasks.
InitLive ==
    /\ Init
    /\ linked = {<<"u1", "A@g">>}
    /\ smtp_config

LiveSpec == InitLive /\ [][Next]_vars /\ Progress

\* The handler's task is cancelled while it awaits asyncio.gather (line 302):
\* CancelledError is raised there, gather cancels its tasks, and the handler is left
\* without reaching line 305.  A task waiting for the semaphore or sleeping is gone;
\* a task awaiting run_in_executor (line 113) is gone too, but the executor thread
\* that runs _send_sync cannot be cancelled and goes on.
cancelled_job(job) ==
    IF job.st \in {"pending", "sleeping"} THEN [job EXCEPT !.st = "cancelled"]
    ELSE IF job.st = "sending" THEN [job EXCEPT !.st = "detached"]
    ELSE job

cancel(c) ==
    /\ calls[c].pc = "running"
    /\ \E j \in DOMAIN calls[c].jobs : calls[c].jobs[j].st \in InFlight
    /\ calls' = [calls EXCEPT ![c] =
                    [@ EXCEPT !.pc = "cancelled",
                              !.jobs = [j \in DOMAIN @ |-> cancelled_job(@[j])]]]
    /\ UNCHANGED <<tokens, ledger, accepted, purged, smtp_config, now, linked, endpoint, writes>>

\* _send_sync (lines 67-108) ends in its thread after the task that awaited it was
\* cancelled: the relay accepted the message, or the attempt failed.  Nobody reads
\* the outcome.
thread_returns(c, j, sent) ==
    /\ calls[c].pc = "cancelled"
    /\ j \in DOMAIN calls[c].jobs
    /\ calls[c].jobs[j].st = "detached"
    /\ calls' = [calls EXCEPT ![c].jobs[j].st = IF sent THEN "sent" ELSE "cancelled"]
    /\ accepted' = IF sent
                   THEN [accepted EXCEPT ![<<calls[c].virtual_inbox, JobMid(c, j)>>] = @ + 1]
                   ELSE accepted
    /\ UNCHANGED <<tokens, ledger, purged, smtp_config, now, linked, endpoint, writes>>

NextCancel ==
    \/ Next
    \/ \E c \in CallIds : cancel(c)
    \/ \E c \in CallIds, j \in 1..MaxJobs, sent \in BOOLEAN : thread_returns(c, j, sent)

CancelSpec == InitLive /\ [][NextCancel]_vars

\* Two users with one linked account each, so that the ledger holds records of
\* both.
InitTwoUsers ==
    /\ linked = {<<"u1", "A@g">>, <<"u2", "b@g">>}
    /\ tokens = {TokenRow(p[1], p[2], AccessToken(0), "ref0", expires_at(AccessToken(0))) :
                    p \in linked}
    /\ ledger = {}
    /\ calls = [c \in CallIds |-> IdleCall]
    /\ accepted = [d \in Deliveries |-> 0]
    /\ purged = {}
    /\ smtp_config = TRUE
    /\ now = 0
    /\ endpoint = [asked |-> 0, granted |-> 0]
    /\ writes = 0

TwoUserSpec == InitTwoUsers /\ [][Next]_vars

\* The Credential Store over time: accounts are linked, relinked and revoked, stored
\* tokens expire as time passes, stored credentials are refreshed, and a forward
\* request acquires a session at any point in between.
LinkAccounts == {"A@g", "a@g", "b@g"}

InitCred ==
    /\ tokens = {}
    /\ linked = {}
    /\ ledger = {}
    /\ calls = [c \in CallIds |-> IdleCall]
    /\ accepted = [d \in Deliveries |-> 0]
    /\ purged = {}
    /\ smtp_config = TRUE
    /\ now = 0
    /\ endpoint = [asked |-> 0, granted |-> 0]
    /\ writes = 0

NextCred ==
    \/ \E u \in Users, e \in LinkAccounts : gmail_callback(u, e)
    \/ \E u \in Users : revoke_gmail_token(u)
    \/ tick
    \/ \E u \in Users, e \in EmailInputs, ok \in BOOLEAN : refresh_credentials(u, e, ok)
    \/ \E u \in Users, e \in EmailInputs, ok \in BOOLEAN :
          forward_emails(1, u, e, <<"a">>, LimitMin, ok)

CredSpec == InitCred /\ [][NextCred]_vars

\* Racing acquisitions: the stored access tokens have expired, and each request
\* looks its credential up, refreshes it and writes the new token back, with the
\* other request's steps and the passing of time in between.
StaleToken == AccessToken(0 - TokenLifetime)

RaceRows ==
    {TokenRow(p[1], p[2], StaleToken, "ref0", expires_at(StaleToken)) :
        p \in {<<"u1", "A@g">>, <<"u1", "b@g">>, <<"u2", "b@g">>}}

InitRace ==
    /\ tokens = RaceRows
    /\ linked = {<<"u1", "A@g">>, <<"u1", "b@g">>, <<"u2", "b@g">>}
    /\ ledger = {}
    /\ calls = [c \in CallIds |-> IdleCall]
    /\ accepted = [d \in Deliveries |-> 0]
    /\ purged = {}
    /\ smtp_config = TRUE
    /\ now = 0
    /\ endpoint = [asked |-> 0, granted |-> 0]
    /\ writes = 0

NextRace ==
    \/ \E c \in CallIds, u \in Users, e \in EmailInputs : lookup_token_data(c, u, e)
    \/ \E c \in CallIds, ok \in BOOLEAN : creds_refresh(c, ok)
    \/ \E c \in CallIds : write_back(c)
    \/ tick

RaceSpec == InitRace /\ [][NextRace]_vars

\* Refreshing acquisitions with revocations in between: a credential can be deleted
\* after an acquisition has looked it up and before it writes its new token back.
NextRevokeRace ==
    \/ NextRace
    \/ \E c \in CallIds : write_back_refused(c)
    \/ \E u \in Users : revoke_gmail_token(u)

RevokeRaceSpec == InitRace /\ [][NextRevokeRace]_vars

\* The forward pipeline next to the search router's two requests.
NextSearch ==
    \/ Next
    \/ \E c \in CallIds, u \in Users, e \in EmailInputs : search_gmail(c, u, e)
    \/ \E c \in CallIds, u \in Users, e \in EmailInputs : count_gmail_messages(c, u, e)

SearchSpec == InitLive /\ [][NextSearch]_vars

(***************************************************************************)
(* Properties                                                              *)
(***************************************************************************)
ReturnedCalls == {c \in CallIds : calls[c].pc = "returned"}

\* The ids a request asks for: message_ids split at the commas and trimmed.
Requested(c) == message_id_list(calls[c].message_ids)

Entries(c, mid) == {j \in DOMAIN calls[c].results : calls[c].results[j].message_id = mid}

WithStatus(c, status) == {j \in DOMAIN calls[c].results : calls[c].results[j].status = status}

\* C1: for every forward call that returned, forwarded + skipped + failed = total
\* and total is the number of message ids the request asked for.
C1_CountsSumToRequested ==
    \A c \in ReturnedCalls :
        /\ calls[c].summary.forwarded + calls[c].summary.skipped + calls[c].summary.failed
              = calls[c].summary.total
        /\ calls[c].summary.total = Len(Requested(c))

\* C2: for every forward call that returned, each requested id has exactly one
\* entry in details and details has no entry for anything else.
C2_EachRequestedIdOnce ==
    \A c \in ReturnedCalls :
        /\ \A i \in DOMAIN Requested(c) : Cardinality(Entries(c, Requested(c)[i])) = 1
        /\ \A j \in DOMAIN calls[c].results :
              calls[c].results[j].message_id \in Range(Requested(c))

\* C3: without a purge of the user's ledger, the Relay Transport accepts each
\* message id for a user's inbox at most once.
C3_DeliveredAtMostOnce ==
    \A u \in Users, ch \in Chars :
        u \notin purged => accepted[<<virtual_inbox(u), <<ch>>>>] <= 1

\* Every record of the ledger is a message the transport accepted for that user.
LedgerRecordsWereDelivered ==
    \A r \in ledger : accepted[<<virtual_inbox(r[1]), r[2]>>] >= 1

C5_MarkedBeforeReturn ==
    [][\A c \in CallIds :
          (calls[c].pc # "returned" /\ calls'[c].pc = "returned") =>
              \A j \in DOMAIN calls'[c].results :
                  calls'[c].results[j].status = "forwarded" =>
                      <<calls'[c].user_id, calls'[c].results[j].message_id>> \in ledger']_vars

\* C5 witness: a call returned a batch in which every job was forwarded, two of
\* them, and all its ids are in the ledger.
C5_Witness ==
    \E c \in ReturnedCalls :
        /\ calls[c].summary.forwarded = 2
        /\ calls[c].summary.forwarded = calls[c].summary.total
        /\ \A j \in DOMAIN calls[c].results :
              <<calls[c].user_id, calls[c].results[j].message_id>> \in ledger

AllForwarded(c) ==
    /\ calls[c].pc = "returned"
    /\ calls[c].results # <<>>
    /\ WithStatus(c, "forwarded") = DOMAIN calls[c].results

\* Call c2 submits the batch of call c1 again, after c1 returned with every id
\* forwarded, and no purge has deleted the user's records.
Resubmits(c2, c1) ==
    /\ c1 \in calls[c2].after
    /\ AllForwarded(c1)
    /\ calls[c2].user_id = calls[c1].user_id
    /\ calls[c2].message_ids = calls[c1].message_ids
    /\ calls[c2].pc \in {"running", "returned"}
    /\ calls[c2].user_id \notin purged

\* C6: a batch submitted again after a call that forwarded all of it is skipped
\* entirely: no job of the second call fetches or delivers, every outcome is skipped.
C6_ResubmissionAllSkipped ==
    \A c1 \in CallIds, c2 \in CallIds :
        Resubmits(c2, c1) =>
            /\ \A j \in DOMAIN calls[c2].jobs :
                  /\ calls[c2].jobs[j].st \in {"pending", "skipped"}
                  /\ ~calls[c2].jobs[j].fetched
                  /\ calls[c2].jobs[j].att = 0
            /\ calls[c2].pc = "returned" =>
                  WithStatus(c2, "skipped") = DOMAIN calls[c2].results

\* C6 witness: the second submission has returned, all skipped.
C6_Witness ==
    \E c1 \in CallIds, c2 \in CallIds :
        /\ Resubmits(c2, c1)
        /\ calls[c2].pc = "returned"
        /\ calls[c2].summary.skipped = calls[c2].summary.total
        /\ calls[c2].summary.total >= 1

\* C7: the jobs of a call that are sending or sleeping between retries never
\* outnumber the call's concurrent_limit.
C7_ConcurrencyBound ==
    \A c \in CallIds : InFlightCount(c) <= calls[c].concurrent_limit

\* C7 witness: the limit is reached by a job sleeping between retries while
\* another job waits for the slot.
C7_Witness ==
    \E c \in CallIds :
        /\ calls[c].pc = "running"
        /\ InFlightCount(c) = calls[c].concurrent_limit
        /\ \E j \in DOMAIN calls[c].jobs : calls[c].jobs[j].st = "sleeping"
        /\ \E j \in DOMAIN calls[c].jobs : calls[c].jobs[j].st = "pending"

\* The call can take a step: start a job, finish an attempt, retry, or return.
CanProceed(c) ==
    \/ \E j \in DOMAIN calls[c].jobs :
          \/ calls[c].jobs[j].st \in InFlight
          \/ calls[c].jobs[j].st = "pending" /\ semaphore_free(c) /\ next_in_line(c, j)
    \/ \A j \in DOMAIN calls[c].jobs : calls[c].jobs[j].st \in Terminal

\* C8: a job's error is its own failed outcome: no task raises, the call is never
\* aborted, a running call with a failed job can still proceed, and the response
\* has one entry per job, each with a terminal status.
C8_JobErrorsContained ==
    \A c \in CallIds :
        /\ calls[c].pc # "aborted"
        /\ \A j \in DOMAIN calls[c].jobs :
              /\ calls[c].jobs[j].st # "raised"
              /\ calls[c].jobs[j].st = "failed" => calls[c].jobs[j].reason # None
        /\ calls[c].pc = "running" => CanProceed(c)
        /\ calls[c].pc = "returned" =>
              /\ DOMAIN calls[c].results = DOMAIN calls[c].jobs
              /\ Len(calls[c].results) = Len(calls[c].message_ids)
              /\ \A j \in DOMAIN calls[c].results :
                    /\ calls[c].results[j].status \in Terminal
                    /\ calls[c].results[j].status = calls[c].jobs[j].st

\* C8 witness: the first job failed, its sibling was forwarded afterwards, and
\* the call returned both outcomes.
C8_Witness ==
    \E c \in ReturnedCalls :
        /\ Len(calls[c].results) = 2
        /\ calls[c].results[1].status = "failed"
        /\ calls[c].results[2].status = "forwarded"

PastAcquisition == {"acquired", "check_failed", "running", "returned", "aborted"}

\* C9: a call whose credential acquisition failed has read no ledger, started no
\* job and produced no result; only a call that acquired a stored credential of
\* its user goes on.
C9_AcquisitionFailureStopsCall ==
    \A c \in CallIds :
        /\ calls[c].pc = "init_failed" =>
              /\ calls[c].imported_status = None
              /\ calls[c].jobs = <<>>
              /\ calls[c].results = <<>>
              /\ calls[c].forwarded_ids = <<>>
              /\ calls[c].summary = None
        /\ calls[c].pc \in PastAcquisition =>
              \E t \in tokens :
                  /\ t.user_id = calls[c].user_id
                  /\ decrypt_value(t.email) = calls[c].user_email

\* C9 witness: a call failed at acquisition although its user has linked accounts
\* (several, none named), and another call failed for a user with none.
C9_Witness ==
    \E c \in CallIds, d \in CallIds :
        /\ calls[c].pc = "init_failed"
        /\ Cardinality({t \in tokens : t.user_id = calls[c].user_id}) > 1
        /\ calls[d].pc = "init_failed"
        /\ {t \in tokens : t.user_id = calls[d].user_id} = {}

ForwardedJobs(d) ==
    {p \in CallIds \X (1..MaxJobs) :
        /\ p[2] \in DOMAIN calls[p[1]].jobs
        /\ calls[p[1]].jobs[p[2]].st = "forwarded"
        /\ <<calls[p[1]].virtual_inbox, JobMid(p[1], p[2])>> = d}

\* C10: a job is not given up before its delivery failed MAX_RETRY_ATTEMPTS times,
\* and every delivery the transport accepts makes its job forwarded; so K < 3
\* failures followed by a success end as forwarded.
C10_RetriedThenForwarded ==
    /\ \A c \in CallIds : \A j \in DOMAIN calls[c].jobs :
          (calls[c].jobs[j].st = "failed" /\ calls[c].jobs[j].att > 0) =>
              calls[c].jobs[j].att >= MAX_RETRY_ATTEMPTS
    /\ \A d \in Deliveries : accepted[d] = Cardinality(ForwardedJobs(d))

\* C10 witness: a job was forwarded by its third attempt, after two failures.
C10_Witness ==
    \E c \in CallIds : \E j \in DOMAIN calls[c].jobs :
        /\ calls[c].jobs[j].st = "forwarded"
        /\ calls[c].jobs[j].att = 3

\* C11: no job makes more than MAX_RETRY_ATTEMPTS delivery attempts: after the third
\* failed attempt the job is failed, with the error of that attempt as its reason.
C11_AttemptsWithinMaximum ==
    \A c \in CallIds : \A j \in DOMAIN calls[c].jobs :
        /\ calls[c].jobs[j].att <= MAX_RETRY_ATTEMPTS
        /\ (calls[c].jobs[j].st = "failed" /\ calls[c].jobs[j].att > 0) =>
              calls[c].jobs[j].reason \in SmtpErrors

\* C12: a job whose delivery was refused for SMTP authentication made exactly one
\* attempt: it failed at once, without a backoff sleep or a retry.
C12_AuthFailureNotRetried ==
    \A c \in CallIds : \A j \in DOMAIN calls[c].jobs :
        (calls[c].jobs[j].st = "failed"
            /\ calls[c].jobs[j].reason = "SMTP authentication failed") =>
                calls[c].jobs[j].att = 1

\* The credentials a user holds, and those of them for a given address (addresses
\* are compared without regard to letter case).
UserRows(u) == {t \in tokens : t.user_id = u /\ t.email_provider = "gmail"}

Matching(u, e) == {t \in UserRows(u) : lower(decrypt_value(t.email)) = lower(e)}

AcquireInputs == EmailInputs \cup LinkAccounts

\* C13: for every content of the Credential Store and every request, acquire fails
\* with "no token" when no account is named and the user has no credential or when
\* the named account matches no record, fails with "several accounts" when no
\* account is named and the user has more than one credential, and otherwise gives
\* the session of the one matching record.
C13_LookupClassified ==
    \A u \in Users, e \in AcquireInputs, ok \in BOOLEAN :
        LET out == _async_initialize(tokens, u, e, now, ok, AccessToken(now))
            candidates == IF e = "" THEN UserRows(u) ELSE Matching(u, e)
        IN  IF candidates = {}
            THEN ~out.ok /\ out.error = "no_token"
            ELSE IF e = "" /\ Cardinality(candidates) > 1
            THEN ~out.ok /\ out.error = "several_accounts"
            ELSE /\ Cardinality(candidates) = 1
                 /\ out.ok
                 /\ \A t \in candidates :
                       /\ out.user_email = decrypt_value(t.email)
                       /\ out.token = decrypt_value(t.access_token)

\* C13 witness: a request that named its account got that account's session while
\* the user holds two credentials.
C13_Witness ==
    /\ calls[1].pc = "acquired"
    /\ calls[1].user_email = "b@g"
    /\ Cardinality(UserRows(calls[1].user_id)) = 2
    /\ \E t \in UserRows(calls[1].user_id) :
          decrypt_value(t.email) = "b@g" /\ decrypt_value(t.access_token) = calls[1].token

\* The step in which call c acquires its session.
Acquires(c) == calls[c].pc = "idle" /\ calls'[c].pc = "acquired"

\* The stored credential the session of call c was built from.
SessionRow(c) ==
    {t \in UserRows(calls'[c].user_id) : decrypt_value(t.email) = calls'[c].user_email}

\* C14: in every step in which a forward call acquires a session, a stored
\* credential whose expiry has passed is refreshed at the token endpoint, and the
\* access token of the session has not expired.
C14_SessionTokenNotExpired ==
    [][\A c \in CallIds :
          Acquires(c) =>
              /\ (\E t \in SessionRow(c) : t.expiry <= now) =>
                    endpoint'.asked = endpoint.asked + 1
              /\ expires_at(calls'[c].token) > now]_vars

OtherColumns == DOMAIN TokenRow("u1", "b@g", None, None, None) \ {"access_token"}

\* C16: a step that writes a refreshed access token back changes one credential
\* record and in it the access token only: its refresh token, token endpoint,
\* client identity, client secret, account address, hash and expiry, and every
\* other record, are as before.
C16_WriteBackChangesAccessTokenOnly ==
    [][writes' = writes + 1 =>
          \E t \in tokens, t2 \in tokens' :
              /\ tokens' \ {t2} = tokens \ {t}
              /\ \A f \in OtherColumns : t2[f] = t[f]
              /\ expires_at(decrypt_value(t2.access_token)) = now + TokenLifetime]_vars

\* C16 witness: a refreshed access token was written into one of several records,
\* beside a record of another user.
C16_Witness ==
    /\ writes = 1
    /\ \E t \in tokens : expires_at(decrypt_value(t.access_token)) > t.expiry
    /\ \E t1 \in tokens, t2 \in tokens : t1.user_id # t2.user_id

\* C17: every credential record holds, next to its access token, the expiry the
\* token endpoint gave for that token: after a refresh was written back the stored
\* expiry is the new one, never the expiry of the token it replaced.
C17_StoredExpiryFollowsToken ==
    \A t \in tokens : t.expiry = expires_at(decrypt_value(t.access_token))

\* C18: an id a call has marked for a user is reported as already forwarded by
\* every later check for that user, as long as no purge has deleted the user's
\* records: by a check made in the current state, and by the check every call made
\* that arrived after the marking call had returned.
C18_MarkedStaysMarked ==
    \A c1 \in ReturnedCalls :
        calls[c1].user_id \notin purged =>
            \A m \in Range(calls[c1].forwarded_ids) :
                /\ check_already_imported(ledger, calls[c1].user_id, <<m>>)[m]
                /\ \A c2 \in CallIds :
                      (/\ c1 \in calls[c2].after
                       /\ calls[c2].pc \in {"running", "returned"}
                       /\ calls[c2].user_id = calls[c1].user_id
                       /\ m \in DOMAIN calls[c2].imported_status) =>
                          calls[c2].imported_status[m]

\* C18 witness: a later call of the same user asked about an id an earlier call had
\* marked and was told it is already forwarded.
C18_Witness ==
    \E c1 \in ReturnedCalls, c2 \in CallIds :
        /\ c1 \in calls[c2].after
        /\ calls[c2].pc \in {"running", "returned"}
        /\ calls[c2].user_id = calls[c1].user_id
        /\ calls[c1].user_id \notin purged
        /\ \E m \in Range(calls[c1].forwarded_ids) :
              m \in DOMAIN calls[c2].imported_status /\ calls[c2].imported_status[m]

\* The batches of ids a call can mark: the characters of a request, repeats included.
Batches == {PyIter(s) : s \in StringsUpTo(MaxJobs)}

\* C19: for every ledger reached and every batch, marking the batch gives the union
\* of the ledger and the batch's (user, id) keys, whether or not some of the keys
\* are present already or repeated in the batch, and marking the same batch again
\* changes nothing.
C19_MarkIdempotent ==
    \A u \in Users, b \in Batches :
        LET once == mark_as_imported_batch(ledger, u, b)
        IN  /\ once = ledger \cup {<<u, b[i]>> : i \in DOMAIN b}
            /\ mark_as_imported_batch(once, u, b) = once

\* C19 witness: two calls of one user have both marked the same id, and the ledger
\* holds it.
C19_Witness ==
    \E c1 \in ReturnedCalls, c2 \in ReturnedCalls :
        /\ c1 # c2
        /\ calls[c1].user_id = calls[c2].user_id
        /\ \E m \in Range(calls[c1].forwarded_ids) :
              /\ m \in Range(calls[c2].forwarded_ids)
              /\ <<calls[c1].user_id, m>> \in ledger

\* C20: the Credential Store never holds two records for one user, provider and
\* account address, addresses that differ only in letter case being the same account.
C20_OneRecordPerAccount ==
    \A t1 \in tokens, t2 \in tokens :
        (/\ t1.user_id = t2.user_id
         /\ t1.email_provider = t2.email_provider
         /\ lower(decrypt_value(t1.email)) = lower(decrypt_value(t2.email))) => t1 = t2

\* C20 witness: a user linked one account under two spellings and a second account,
\* a refreshed token was written back, and the store holds one record for each account.
C20_Witness ==
    \E u \in Users :
        /\ {<<u, "A@g">>, <<u, "a@g">>, <<u, "b@g">>} \subseteq linked
        /\ writes = 1
        /\ Cardinality(Matching(u, "a@g")) = 1
        /\ Cardinality(UserRows(u)) = 2

\* The places of a call whose handler body has run past the parameter validation.
PastValidation == {"acquired", "running", "returned", "aborted", "check_failed"}

\* C21: a forward request whose concurrent_limit lies outside LimitMin..LimitMax is
\* rejected before any work starts.  The step that rejects it changes neither the
\* Credential Store, the token endpoint's counters, the write-back count, the ledger
\* nor the deliveries; the rejected call holds no token, no dedup lookup, no job and
\* no result, and stays rejected; and a call that got past the validation carries a
\* limit inside the range.
C21_OutOfRangeLimitRejected ==
    [][\A c \in CallIds :
          /\ calls'[c].pc \in PastValidation =>
                 /\ calls'[c].concurrent_limit >= LimitMin
                 /\ calls'[c].concurrent_limit <= LimitMax
          /\ calls'[c].pc = "rejected" =>
                 /\ calls[c].pc \in {"idle", "rejected"}
                 /\ \/ calls'[c].concurrent_limit < LimitMin
                    \/ calls'[c].concurrent_limit > LimitMax
                 /\ calls'[c].token = None
                 /\ calls'[c].user_email = None
                 /\ calls'[c].imported_status = None
                 /\ calls'[c].jobs = <<>>
                 /\ calls'[c].results = <<>>
                 /\ calls[c].pc = "idle" =>
                        UNCHANGED <<tokens, endpoint, writes, ledger, accepted, purged>>
          /\ calls[c].pc = "rejected" => calls'[c] = calls[c]]_vars

\* Both sides of the range are rejected while an account is linked and the SMTP
\* configuration is complete.
C21_Witness ==
    /\ tokens # {}
    /\ smtp_config
    /\ \E c \in CallIds, d \in CallIds :
          /\ calls[c].pc = "rejected" /\ calls[c].concurrent_limit > LimitMax
          /\ calls[d].pc = "rejected" /\ calls[d].concurrent_limit < LimitMin

\* C22: the result of a forwarded job whose delivery needed retries records how
\* many: a delivery accepted on its third attempt has retry count 2.
C22_RetryCountRecorded ==
    \A c \in ReturnedCalls : \A j \in DOMAIN calls[c].results :
        (calls[c].results[j].status = "forwarded" /\ calls[c].jobs[j].att > 1) =>
            /\ "retry_count" \in DOMAIN calls[c].results[j]
            /\ calls[c].results[j].retry_count = calls[c].jobs[j].att - 1

\* The reasons of a job that failed in its fetch.
FetchReasons == {"unexpected_error", "no_raw_content"}

\* A job that was fetched and has started no delivery attempt.
FetchFailed(job) == job.fetched /\ job.att = 0

\* C23: a job whose fetch fails or returns no raw payload goes from pending through
\* its one fetch to failed.  A job that was fetched and has started no delivery
\* attempt is failed with the reason of the fetch ("unexpected_error: ..." for an
\* exception of the fetch or of the decode, "no_raw_content" for an empty payload);
\* a fetch happens only to a pending job that was not fetched before; the failed job
\* never changes again, so it is never fetched a second time and never delivered;
\* and the call's result for it is failed with that reason.
C23_FetchFailureFailsWithoutDelivery ==
    [][\A c \in CallIds : \A j \in DOMAIN calls'[c].jobs :
          LET new == calls'[c].jobs[j]
          IN  /\ FetchFailed(new) => new.st = "failed" /\ new.reason \in FetchReasons
              /\ (FetchFailed(new) /\ calls'[c].pc = "returned") =>
                     /\ calls'[c].results[j].status = "failed"
                     /\ calls'[c].results[j].reason \in FetchReasons
              /\ j \in DOMAIN calls[c].jobs =>
                     LET old == calls[c].jobs[j]
                     IN  /\ (new.fetched /\ ~old.fetched) => old.st = "pending"
                         /\ (old.fetched /\ new # old) => old.st \in InFlight
                         /\ FetchFailed(old) =>
                                /\ new = old
                                /\ accepted'[<<calls[c].virtual_inbox, JobMid(c, j)>>]
                                       = accepted[<<calls[c].virtual_inbox, JobMid(c, j)>>]
                                   \/ \E d \in CallIds : \E k \in DOMAIN calls[d].jobs :
                                         /\ <<d, k>> # <<c, j>>
                                         /\ calls[d].jobs[k].st = "sending"
                                         /\ calls'[d].jobs[k].st = "forwarded"]_vars

\* A returned call with one job failed by a fetch error and one by an empty payload,
\* neither of them delivered.
C23_Witness ==
    \E c \in ReturnedCalls : \E j \in DOMAIN calls[c].jobs, k \in DOMAIN calls[c].jobs :
        /\ FetchFailed(calls[c].jobs[j]) /\ calls[c].results[j].reason = "unexpected_error"
        /\ FetchFailed(calls[c].jobs[k]) /\ calls[c].results[k].reason = "no_raw_content"
        /\ accepted[<<calls[c].virtual_inbox, JobMid(c, j)>>] = 0
        /\ accepted[<<calls[c].virtual_inbox, JobMid(c, k)>>] = 0

\* What the up-front ledger check reported for the id of task j.
Reported(c, j) == dict_get(calls[c].imported_status, JobMid(c, j), FALSE)

\* The steps of a job.
JobStep(old, new, reported) ==
    \/ new = old
    \/ /\ old.st = "pending" /\ reported
       /\ new = [old EXCEPT !.st = "skipped", !.reason = "already_imported"]
    \/ /\ old.st = "pending" /\ ~reported
       /\ new.st \in {"failed", "sending"}
       /\ new.fetched
       /\ new.att = IF new.st = "sending" THEN 1 ELSE 0
    \/ /\ old.st = "sending"
       /\ new.st \in {"forwarded", "sleeping", "failed"}
       /\ new.att = old.att /\ new.fetched = old.fetched
    \/ /\ old.st = "sleeping"
       /\ new = [old EXCEPT !.st = "sending", !.att = @ + 1]

\* C24: a job whose id the up-front ledger check reported present goes straight from
\* pending to skipped, without a fetch and without a delivery attempt, and every job
\* moves only along pending -> skipped | failed | sending, sending -> forwarded |
\* sleeping | failed, sleeping -> sending; skipped, forwarded and failed are never
\* left, and a job is sending only after its fetch returned a payload.
C24_JobsFollowTransitions ==
    [][\A c \in CallIds : \A j \in DOMAIN calls'[c].jobs :
          LET new == calls'[c].jobs[j]
          IN  /\ new.st \in {"pending"} \cup InFlight \cup Terminal
              /\ new.st = "skipped" => ~new.fetched /\ new.att = 0
              /\ new.st \in InFlight \cup {"forwarded"} => new.fetched /\ new.att >= 1
              /\ IF j \in DOMAIN calls[c].jobs
                 THEN /\ JobStep(calls[c].jobs[j], new, Reported(c, j))
                      /\ calls[c].jobs[j].st \in Terminal => new = calls[c].jobs[j]
                      /\ calls'[c].imported_status = calls[c].imported_status
                 ELSE new = PendingJob]_vars

\* A returned call skipped a job whose message an earlier call delivered: the job was
\* not fetched, started no attempt, and the message was delivered once only.
C24_Witness ==
    \E c \in ReturnedCalls : \E j \in DOMAIN calls[c].jobs :
        /\ calls[c].results[j].status = "skipped"
        /\ calls[c].jobs[j] = [PendingJob EXCEPT !.st = "skipped", !.reason = "already_imported"]
        /\ Reported(c, j)
        /\ accepted[<<calls[c].virtual_inbox, JobMid(c, j)>>] = 1

\* Two calls of one user in flight at the same time with an id in common.
Overlapping(c, d) ==
    /\ c # d
    /\ calls[c].pc \in {"running", "returned", "aborted"}
    /\ calls[d].pc \in {"running", "returned", "aborted"}
    /\ c \notin calls[d].after /\ d \notin calls[c].after
    /\ calls[c].user_id = calls[d].user_id
    /\ Range(PyIter(calls[c].message_ids)) \cap Range(PyIter(calls[d].message_ids)) # {}

\* C27: two forward calls of one user that run at the same time over overlapping
\* ids lose no mark and raise no conflict: neither call is aborted, and once both
\* have returned every id either of them reported forwarded is in the ledger (as
\* long as no purge has deleted the user's records).
C27_ConcurrentMarksKept ==
    \A c \in CallIds, d \in CallIds :
        Overlapping(c, d) =>
            /\ calls[c].pc # "aborted"
            /\ (calls[c].pc = "returned" /\ calls[d].pc = "returned"
                    /\ calls[c].user_id \notin purged) =>
                   \A m \in Range(calls[c].forwarded_ids) : <<calls[c].user_id, m>> \in ledger

\* Both calls delivered the same message before either had marked it, and both
\* returned it as forwarded; the ledger holds the one record.
C27_Witness ==
    \E c \in ReturnedCalls, d \in ReturnedCalls :
        /\ Overlapping(c, d)
        /\ calls[c].user_id \notin purged
        /\ \E m \in Range(calls[c].forwarded_ids) \cap Range(calls[d].forwarded_ids) :
              /\ accepted[<<calls[c].virtual_inbox, m>>] = 2
              /\ {r \in ledger : r[1] = calls[c].user_id} = {<<calls[c].user_id, m>>}

\* Every task of the call has returned.
AllTerminal(c) == \A j \in DOMAIN calls[c].jobs : calls[c].jobs[j].st \in Terminal

\* C25: when every fetch and every delivery attempt returns, every job of a forward
\* call whose tasks were created reaches a terminal state and the call returns its
\* summary; and a call has returned only with every job terminal, one result per
\* job and a summary that counts them all.
C25_EveryCallReturns ==
    /\ [](\A c \in CallIds :
            calls[c].pc = "returned" =>
                /\ AllTerminal(c)
                /\ Len(calls[c].results) = Len(calls[c].jobs)
                /\ calls[c].summary.forwarded + calls[c].summary.skipped
                       + calls[c].summary.failed = Len(calls[c].jobs))
    /\ \A c \in CallIds :
          (calls[c].pc = "running") ~> (calls[c].pc = "returned" /\ AllTerminal(c))

\* A call with two tasks and one slot returned; its second task had to wait for the
\* slot, and its first used every attempt the retry loop allows.
C25_Witness ==
    \E c \in ReturnedCalls :
        /\ calls[c].concurrent_limit = 1
        /\ Len(calls[c].jobs) = 2
        /\ calls[c].jobs[1].att = MAX_RETRY_ATTEMPTS + 1
        /\ calls[c].jobs[2].st = "forwarded"

\* C26: when a forward call is cancelled while deliveries are in flight, every
\* delivery of that call the transport had accepted before, and every one it
\* accepts afterwards, has its id in the ledger once nothing of the call is in
\* flight any more (as long as no purge has deleted the user's records).
C26_CancelledCallStillMarks ==
    \A c \in CallIds :
        (/\ calls[c].pc = "cancelled"
         /\ \A j \in DOMAIN calls[c].jobs : calls[c].jobs[j].st # "detached"
         /\ calls[c].user_id \notin purged) =>
            \A j \in DOMAIN calls[c].jobs :
                calls[c].jobs[j].st \in {"forwarded", "sent"} =>
                    <<calls[c].user_id, JobMid(c, j)>> \in ledger

\* An acquisition that has written its refreshed token back.
Refreshed(c) == calls[c].pc = "acquired"

\* The acquisitions that refreshed and wrote back for the account call c asked for.
Writers(c) ==
    {d \in CallIds : /\ Refreshed(d)
                     /\ calls[d].user_id = calls[c].user_id
                     /\ calls[d].token_data.email_hash = calls[c].token_data.email_hash}

\* C28: after two (or more) acquisitions for the same user and account have all
\* refreshed and written back, the stored access token is the token one of those
\* refreshes produced, not the token that was stored before, and every other column
\* of the record, and every other record, is what it was before they started.
C28_RacingRefreshesKeepFreshToken ==
    \A c \in CallIds :
        (Refreshed(c) /\ Cardinality(Writers(c)) >= 2) =>
            /\ \E t \in tokens :
                  /\ t.user_id = calls[c].user_id
                  /\ t.email_hash = calls[c].token_data.email_hash
                  /\ decrypt_value(t.access_token) \in {calls[d].token : d \in Writers(c)}
                  /\ decrypt_value(t.access_token) # StaleToken
            /\ {[t EXCEPT !.access_token = encrypt_value(StaleToken)] : t \in tokens} = RaceRows
            /\ Cardinality(tokens) = Cardinality(RaceRows)

\* Two acquisitions of one account refreshed at different times and wrote back in
\* the opposite order: the store holds the token of the earlier refresh.
C28_Witness ==
    \E c \in CallIds, d \in CallIds :
        /\ Refreshed(c) /\ Refreshed(d)
        /\ calls[c].user_id = calls[d].user_id
        /\ calls[c].token_data = calls[d].token_data
        /\ expires_at(calls[c].token) < expires_at(calls[d].token)
        /\ \E t \in tokens :
              /\ t.email_hash = calls[c].token_data.email_hash
              /\ decrypt_value(t.access_token) = calls[c].token
        /\ writes = 2

\* C29: ledger records are removed by the confirmed purge only.  A step that removes
\* a record is a confirmed purge of one user: it removes every record of that user
\* and nothing else, and touches no forward call; a purge without confirm=true
\* leaves the ledger as it is; a step that adds records removes none.
C29_RecordsRemovedOnlyByPurge ==
    [][/\ ledger \ ledger' # {} =>
            \E u \in Users :
                /\ u \in purged'
                /\ ledger' = {r \in ledger : r[1] # u}
                /\ UNCHANGED <<calls, accepted, tokens>>
       /\ ledger' \ ledger # {} => ledger \subseteq ledger'
       /\ \A u \in Users : clear_imported_records(u, FALSE) => UNCHANGED <<ledger, purged>>
       /\ \A u \in Users :
             clear_imported_records(u, TRUE) => ledger' = {r \in ledger : r[1] # u}]_vars

\* One user's records were purged while the other user's record is still there.
C29_Witness ==
    \E u \in Users, v \in Users :
        /\ u \in purged /\ v \notin purged
        /\ {r \in ledger : r[1] = u} = {}
        /\ {r \in ledger : r[1] = v} # {}

\* C30: a revoke that succeeds leaves no gmail credential record of its user, leaves
\* every other user's records alone, and every acquisition for that user in the
\* resulting store fails with "no token found", whichever account it names; a revoke
\* that fails, because the user has no record or the lookup raises, leaves the
\* Credential Store unchanged.  A step that takes records away is a successful revoke.
C30_RevokeRemovesCredential ==
    [][/\ Cardinality(tokens') < Cardinality(tokens) =>
            \E u \in Users :
                /\ {t \in tokens' : t.user_id = u} = {}
                /\ tokens' = {t \in tokens : t.user_id # u}
                /\ \A e \in EmailInputs, ok \in BOOLEAN :
                      LET out == _async_initialize(tokens', u, e, now', ok, AccessToken(now'))
                      IN  ~out.ok /\ out.error = "no_token" /\ out.store = tokens'
       /\ \A u \in Users :
             (revoke_gmail_token(u) /\ Cardinality(UserRows(u)) # 1) => tokens' = tokens]_vars

\* A user who had linked an account has no record any more, a forward request of
\* that user was refused for want of a token, and the other user's record is there.
C30_Witness ==
    \E u \in Users, v \in Users :
        /\ \E e \in LinkAccounts : <<u, e>> \in linked
        /\ UserRows(u) = {}
        /\ UserRows(v) # {}
        /\ calls[1].pc = "init_failed" /\ calls[1].user_id = u /\ calls[1].error = "no_token"

\* C31: the ledger is scoped per user.  A step that adds records of one user leaves
\* the answer of the dedup check unchanged for every other user and every batch of
\* ids, and a job of a call is skipped only for an id that was delivered to the
\* inbox of that call's own user.
C31_LedgerScopedPerUser ==
    [][/\ \A a \in Users :
             (ledger' \ ledger # {} /\ \A r \in ledger' \ ledger : r[1] = a) =>
                 \A b \in Users \ {a} : \A batch \in Batches \ {<<>>} :
                     check_already_imported(ledger', b, batch)
                         = check_already_imported(ledger, b, batch)
       /\ \A c \in CallIds : \A j \in DOMAIN calls'[c].jobs :
             calls'[c].jobs[j].st = "skipped" =>
                 /\ <<calls'[c].user_id, PyIter(calls'[c].message_ids)[j]>> \in ledger
                        \/ calls'[c].user_id \in purged
                 /\ accepted[<<virtual_inbox(calls'[c].user_id),
                               PyIter(calls'[c].message_ids)[j]>>] >= 1]_vars

\* The same message id was delivered for both users, the second after the first
\* was marked: each user has a record and neither call skipped it.
C31_Witness ==
    \E c \in ReturnedCalls, d \in ReturnedCalls :
        /\ c \in calls[d].after
        /\ calls[c].user_id # calls[d].user_id
        /\ \E m \in Range(calls[c].forwarded_ids) \cap Range(calls[d].forwarded_ids) :
              /\ <<calls[c].user_id, m>> \in ledger
              /\ <<calls[d].user_id, m>> \in ledger
              /\ accepted[<<calls[d].virtual_inbox, m>>] = 1

\* The keys (user, provider, account hash) of the records in a store.
Keys(store) == {<<t.user_id, t.email_provider, t.email_hash>> : t \in store}

\* A record with everything gmail_callback stores: address, both tokens, expiry.
Complete(t) ==
    /\ decrypt_value(t.email) # None
    /\ decrypt_value(t.access_token) # None
    /\ decrypt_value(t.refresh_token) # None

\* C32: a refresh write-back never creates a credential record.  The step that ends
\* an acquisition's write-back adds no key to the store; when the record it looked
\* up is gone by then (revoked in between), the store is left exactly as it is and
\* the acquisition fails; and every record of the store is complete at all times.
C32_WriteBackCreatesNoRecord ==
    [][/\ \A c \in CallIds :
             (calls[c].pc = "refreshed" /\ calls'[c].pc # "refreshed") =>
                 /\ Keys(tokens') \subseteq Keys(tokens)
                 /\ <<calls[c].user_id, "gmail", calls[c].token_data.email_hash>>
                        \notin Keys(tokens) =>
                            /\ tokens' = tokens
                            /\ calls'[c].pc = "init_failed"
       /\ \A t \in tokens' : Complete(t)]_vars

\* An acquisition looked its credential up and refreshed, the credential was revoked,
\* and the write-back failed: the user has no record.
C32_Witness ==
    \E c \in CallIds :
        /\ calls[c].pc = "init_failed"
        /\ calls[c].error = "update_failed"
        /\ calls[c].token # None
        /\ UserRows(calls[c].user_id) = {}
        /\ endpoint.granted >= 1

\* A request that has evaluated gmail.service: a forward call with a fetched job, a
\* search, a count.
UsedService(c) ==
    \/ calls[c].pc \in {"searched", "search_failed", "counted", "count_failed"}
    \/ \E j \in DOMAIN calls[c].jobs : calls[c].jobs[j].fetched

\* C33: every request that uses its client's provider service does so on a client
\* whose initialization has completed: the service is set, never None, when it is
\* used by forward's fetch, by search and by count.
C33_ServiceUsedOnlyWhenInitialized ==
    \A c \in CallIds : UsedService(c) => calls[c].service # None

\* The address of user u's virtual inbox.
InboxOf(u) == <<u, "@", RECEIPTDROP_INBOX>>

\* C34: every delivery attempted in a forward call of user U goes to U's own virtual
\* inbox and nowhere else.  The address a call sends to is U@inbox-domain from the
\* moment the call has it and stays the same for every job and every retry; and a
\* step in which the transport accepts a message is the step of one sending job,
\* accepts that job's message once, at the inbox of the job's user, and nothing at
\* any other address.
C34_DeliveriesGoToOwnInbox ==
    [][/\ \A c \in CallIds :
             /\ calls'[c].pc \in {"acquired", "running", "returned"} =>
                    calls'[c].virtual_inbox = InboxOf(calls'[c].user_id)
             /\ calls[c].pc \in {"acquired", "running"} =>
                    /\ calls'[c].virtual_inbox = calls[c].virtual_inbox
                    /\ calls'[c].user_id = calls[c].user_id
       /\ accepted' # accepted =>
             \E c \in CallIds : \E j \in DOMAIN calls[c].jobs :
                 /\ calls[c].jobs[j].st = "sending"
                 /\ calls'[c].jobs[j].st = "forwarded"
                 /\ accepted' = [accepted EXCEPT
                                    ![<<InboxOf(calls[c].user_id), JobMid(c, j)>>] = @ + 1]]_vars

\* Both users had a message delivered, one of them on a retry: each inbox received
\* its own user's message.
C34_Witness ==
    \E c \in ReturnedCalls, d \in ReturnedCalls :
        /\ calls[c].user_id # calls[d].user_id
        /\ \E j \in DOMAIN calls[c].jobs :
              /\ calls[c].jobs[j].st = "forwarded" /\ calls[c].jobs[j].att > 1
              /\ accepted[<<InboxOf(calls[c].user_id), JobMid(c, j)>>] = 1
              /\ accepted[<<InboxOf(calls[d].user_id), JobMid(c, j)>>] = 0
        /\ \E k \in DOMAIN calls[d].jobs :
              /\ calls[d].jobs[k].st = "forwarded"
              /\ accepted[<<InboxOf(calls[d].user_id), JobMid(d, k)>>] = 1
====
